---- MODULE Spec2Model ----
(***************************************************************************)
(* Offline asset cache manager of naoki496/lobby: the service worker's     *)
(* install / activate lifecycle and its per-request routing, in the four   *)
(* variants of sw.js found in the repository:                              *)
(*   "v01"  src/unnamed/part_000   (CACHE_NAME ...-01, cache.addAll)       *)
(*   "v02"  src/sw.js lines 1-150  (CACHE_NAME ...-02)                     *)
(*   "v03"  src/sw.js lines 152-299 (CACHE_NAME ...-03)                    *)
(*   "v03b" src/unnamed/part_001   (CACHE_NAME ...-03, toAbsUrl)           *)
(* Every await of the source is a step of its own: the network fetch, the  *)
(* caches.open, the cache.put and the caches.match each settle in a        *)
(* separate action, so handlers interleave as the event loop lets them.    *)
(***************************************************************************)
EXTENDS Integers, Sequences, FiniteSets, TLC

\* ---------------------------------------------------------------- bounds
\* fetch events handled in one behaviour (all may be in flight together)
MaxTasks == 2
\* distinct successful response bodies the network may serve for one URL
MaxBody == 2
\* number of manifest locators provisioned (a prefix of ASSETS)
ManifestLen == 3
\* the most entries a stored card-counts object holds
MaxEntries == 2
\* the largest stored count, in halves (3 is the number 1.5)
MaxHalves == 3
\* the most items whatsnew.json lists
MaxItems == 7
\* the most clicks on the reload button
MaxReloads == 1
\* loadWhatsNew renders items.slice(0, 6)
WhatsNewLimit == 6

\* ---------------------------------------------------------------- variants
Variants == {"v01", "v02", "v03", "v03b"}

CACHE_NAME(v) ==
  CASE v = "v01" -> "hk-dojo-v2026-02-08-01"
    [] v = "v02" -> "hk-dojo-v2026-02-08-02"
    [] OTHER     -> "hk-dojo-v2026-02-08-03"

\* every store name the origin's CacheStorage may hold: the generations'
\* names and one store that belongs to no generation of this worker
StoreNames ==
  {CACHE_NAME(v) : v \in Variants} \cup {"other-store"}

\* ---------------------------------------------------------------- URLs
\* A URL is its origin and its pathname, the pathname cut into directory
\* segments, the last segment's stem and its extension:
\*   https://self/lobby/style.css = [self, <<"lobby">>, "style", "css"]
SelfOrigin == "https://naoki496.github.io"
OtherOrigin == "https://cdn.example"

\* self.location: the worker script lives at /lobby/sw.js
BaseSegs == <<"lobby">>

Url(o, segs, file, ext) ==
  [origin |-> o, segs |-> segs, file |-> file, ext |-> ext]

\* a relative locator "./<segs>/<file>.<ext>" of the manifest
Rel(segs, file, ext) ==
  [origin |-> "", segs |-> segs, file |-> file, ext |-> ext]

NoUrl == Url("none", <<>>, "", "")

\* new URL(u, self.location): a relative locator resolves against the
\* directory of the worker script; an absolute URL is kept
toAbsUrl(u) ==
  IF u.origin = "" THEN Url(SelfOrigin, BaseSegs \o u.segs, u.file, u.ext) ELSE u

Icons ==
  << Rel(<<"icons">>, "icon-192", "png"), Rel(<<"icons">>, "icon-512", "png"),
     Rel(<<"icons">>, "icon-maskable-192", "png"),
     Rel(<<"icons">>, "icon-maskable-512", "png") >>

Manifest(v) ==
  CASE v = "v01" ->
         << Rel(<<>>, "", ""), Rel(<<>>, "index", "html"), Rel(<<>>, "style", "css"),
            Rel(<<>>, "home", "css"), Rel(<<>>, "home", "js"),
            Rel(<<>>, "manifest", "json"), Rel(<<"assets">>, "top", "jpg") >> \o Icons
    [] v = "v02" ->
         << Rel(<<>>, "", ""), Rel(<<>>, "index", "html"), Rel(<<>>, "style", "css"),
            Rel(<<>>, "home", "js"), Rel(<<>>, "home", "css"),
            Rel(<<>>, "manifest", "json") >> \o Icons
    [] OTHER ->
         << Rel(<<>>, "", ""), Rel(<<>>, "index", "html"), Rel(<<>>, "style", "css"),
            Rel(<<>>, "home", "js"), Rel(<<>>, "home", "css"),
            Rel(<<>>, "manifest", "json"), Rel(<<>>, "H.K.LOBBY", "png") >> \o Icons

\* the locators provisioned in the model: the first ManifestLen of the list
ASSETS(v) ==
  SubSeq(Manifest(v), 1, IF ManifestLen < Len(Manifest(v)) THEN ManifestLen ELSE Len(Manifest(v)))

Locators(v) == 1..Len(ASSETS(v))

\* "./index.html", the fallbackUrl of the navigation strategy
IndexRel == Rel(<<>>, "index", "html")
IndexUrl == toAbsUrl(IndexRel)
RootUrl == toAbsUrl(Rel(<<>>, "", ""))
StyleUrl == toAbsUrl(Rel(<<>>, "style", "css"))
PageUrl == Url(SelfOrigin, BaseSegs, "about", "html")
HubJsonUrl == Url(SelfOrigin, <<"cards-hub">>, "status", "json")
HubCsvUrl == Url(SelfOrigin, <<"cards-hub">>, "cards", "csv")
CdnUrl == Url(OtherOrigin, <<"lib">>, "app", "js")
CdnPageUrl == Url(OtherOrigin, <<>>, "index", "html")

ManifestUrls ==
  UNION {{toAbsUrl(ASSETS(v)[i]) : i \in Locators(v)} : v \in Variants}

RequestUrls ==
  {RootUrl, StyleUrl, PageUrl, HubJsonUrl, HubCsvUrl, CdnUrl, CdnPageUrl}

Urls == ManifestUrls \cup RequestUrls \cup {IndexUrl}

\* the requests the page can issue: (method, mode, url)
Req(m, mode, u) == [method |-> m, mode |-> mode, url |-> u]

NoReq == Req("", "", NoUrl)

Requests ==
  { Req("GET", "navigate", RootUrl), Req("GET", "navigate", PageUrl),
    Req("GET", "navigate", CdnPageUrl), Req("GET", "navigate", HubCsvUrl),
    Req("GET", "cors", StyleUrl), Req("GET", "cors", HubJsonUrl),
    Req("GET", "cors", HubCsvUrl),
    Req("GET", "cors", CdnUrl), Req("POST", "cors", StyleUrl) }

\* ---------------------------------------------------------------- responses
\* a response: the URL it was fetched from, res.ok, and its body
Resp(u, ok, body) == [url |-> u, ok |-> ok, body |-> body]

NoResp == Resp(NoUrl, FALSE, 0)

\* what a settled fetch(url) can yield: a 2xx response with one of the
\* bodies, a non-2xx response, or (NoResp) a rejection
NetResponses(u) ==
  {Resp(u, TRUE, b) : b \in 1..MaxBody} \cup {Resp(u, FALSE, 0)}

NetOutcomes(u) == NetResponses(u) \cup {NoResp}

EmptyStore == [u \in Urls |-> NoResp]

\* ---------------------------------------------------------------- helpers
\* (mutant) the origin comparison dropped
isSameOriginAlways(u) == TRUE

\* new URL(url).origin === self.location.origin
isSameOrigin(u) == u.origin = SelfOrigin

\* pathname.startsWith("/cards-hub/")
InCardsHub(u) == Len(u.segs) >= 1 /\ u.segs[1] = "cards-hub"

\* v01, v02, v03: same-origin, under /cards-hub/, ending in .json or .csv
isCardsHubJsonOrCsv(u) ==
  /\ u.origin = SelfOrigin /\ InCardsHub(u)
  /\ u.ext \in {"json", "csv"}

\* v03b: only /cards-manifest.json and *.csv under /cards-hub/
isCardsHubFreshTarget(u) ==
  /\ u.origin = SelfOrigin
  /\ InCardsHub(u)
  /\ \/ (u.file = "cards-manifest" /\ u.ext = "json")
     \/ u.ext = "csv"

IsFresh(v, u) ==
  IF v = "v03b" THEN isCardsHubFreshTarget(u) ELSE isCardsHubJsonOrCsv(u)

\* (mutant) the same-origin branch tested before the navigate branch
ClassifyOriginFirst(v, r) ==
  IF r.method # "GET" THEN "native"
  ELSE IF isSameOrigin(r.url) /\ ~IsFresh(v, r.url) THEN "static"
  ELSE IF r.mode = "navigate" THEN "navigate"
  ELSE IF IsFresh(v, r.url) THEN "fresh"
  ELSE "native"

\* (mutant) the last branch taken without the same-origin test
ClassifyNoOriginCheck(v, r) ==
  IF r.method # "GET" THEN "native"
  ELSE IF r.mode = "navigate" THEN "navigate"
  ELSE IF IsFresh(v, r.url) THEN "fresh"
  ELSE "static"

\* (mutant) the listener without its method guard
ClassifyAnyMethod(v, r) ==
  IF r.mode = "navigate" THEN "navigate"
  ELSE IF IsFresh(v, r.url) THEN "fresh"
  ELSE IF isSameOrigin(r.url) THEN "static"
  ELSE "native"

\* (mutant) the cards-hub branch tested before the navigate branch
ClassifyFreshFirst(v, r) ==
  IF r.method # "GET" THEN "native"
  ELSE IF IsFresh(v, r.url) THEN "fresh"
  ELSE IF r.mode = "navigate" THEN "navigate"
  ELSE IF isSameOrigin(r.url) THEN "static"
  ELSE "native"

\* the branch of the fetch listener a request takes
Classify(v, r) ==
  IF r.method # "GET" THEN "native"
  ELSE IF r.mode = "navigate" THEN "navigate"
  ELSE IF IsFresh(v, r.url) THEN "fresh"
  ELSE IF isSameOrigin(r.url) THEN "static"
  ELSE "native"

\* (mutant) the cards-hub branch passing the navigation's fallbackUrl
HasFallbackUrlAlways(v, r) == Classify(v, r) \in {"navigate", "fresh"}

\* (mutant) networkFirst called without a fallbackUrl
HasFallbackUrlNever(v, r) == FALSE

\* networkFirst(req, { fallbackUrl }): only the navigate branch passes one
HasFallbackUrl(v, r) == Classify(v, r) = "navigate"

\* (mutant) cachePutSafe returning before it stores anything
cachePutSafeNever(v, res) == FALSE

\* cachePutSafe's guard before the store is opened: v03b refuses a missing,
\* opaque or non-ok response (an opaque response has ok = false); v02 and
\* v03 open the store whatever the response; v01 has no cachePutSafe and
\* puts inline, whatever the response
cachePutSafe(v, res) ==
  IF v = "v03b" THEN res # NoResp /\ res.ok ELSE TRUE

\* networkFirst stores the live response only for a same-origin GET
networkFirstStores(r) == r.method = "GET" /\ isSameOrigin(r.url)

\* v01 issues cache.put without awaiting it (and outside any try)
PutAwaited(v) == v # "v01"

\* the static branch on a cache miss: only v03b catches the failed fetch
\* and falls back to ./index.html
StaticMissFallback(v) == v = "v03b"

\* install: v01 uses cache.addAll (all or nothing), the others
\* precacheBestEffort
BestEffortInstall(v) == v # "v01"

\* precacheBestEffort: a locator is put only when its fetch resolved 2xx
precacheStores(res) == res # NoResp /\ res.ok

\* ---------------------------------------------------------------- state
VARIABLES
  variant,     \* which variant of sw.js is the installing worker
  cacheNames,  \* CacheStorage: the store names, in creation order
  store,       \* CacheStorage: store name -> (URL -> stored response)
  ipc,         \* install listener: where its async body stands
  itask,       \* install: per-locator task of precacheBestEffort
  apc,         \* activate listener: where its async body stands
  akeys,       \* activate: the key list caches.keys() returned
  adel,        \* activate: deletions issued and not settled yet
  tasks,       \* fetch events: one record per event
  storageFails, \* whether caches.open / cache.put may reject (quota, I/O)
  prev,        \* a store write of the previous generation's worker in flight
  home         \* home.js: the lobby page, its what's-new panel and status bar

vars == <<variant, cacheNames, store, ipc, itask, apc, akeys, adel, tasks, storageFails, prev, home>>

\* how a caches.open or a cache.put may settle: TRUE fulfilled, FALSE rejected
WriteOutcomes == IF storageFails THEN BOOLEAN ELSE {TRUE}

TaskIds == 1..MaxTasks

Out(kind, resp, from) == [kind |-> kind, resp |-> resp, from |-> from]

NoOut == Out("pending", NoResp, "none")

IdleTask ==
  [pc |-> "idle", req |-> NoReq, res |-> NoResp, out |-> NoOut,
   bg |-> "none", bgres |-> NoResp, net |-> "none", usedCache |-> FALSE,
   reg |-> 0]

ITask(st, res) == [st |-> st, res |-> res]

Range(s) == {s[i] : i \in DOMAIN s}

\* caches.keys()
CacheKeys == Range(cacheNames)

\* caches.open(name): the store is created when it does not exist
OpenedNames(name) ==
  IF name \in CacheKeys THEN cacheNames ELSE Append(cacheNames, name)

RECURSIVE MatchFrom(_, _)
\* caches.match(url): the first store, in creation order, that holds it
MatchFrom(i, u) ==
  IF i > Len(cacheNames) THEN NoResp
  ELSE IF store[cacheNames[i]][u] # NoResp THEN store[cacheNames[i]][u]
  ELSE MatchFrom(i + 1, u)

CachesMatch(u) == MatchFrom(1, u)

\* (mutant) a put that removes the entry when the response is not 2xx
PutIntoDropsNonOk(name, u, res) ==
  [store EXCEPT ![name][u] = IF res.ok THEN res ELSE NoResp]

\* (mutant) a put into the store that was created first
PutIntoOldest(name, u, res) == [store EXCEPT ![cacheNames[1]][u] = res]

\* (mutant) a put that keeps the entry already stored
PutIntoKeepsFirst(name, u, res) ==
  IF store[name][u] # NoResp THEN store ELSE [store EXCEPT ![name][u] = res]

\* cache.put(req, res.clone()) on the store called name
PutInto(name, u, res) == [store EXCEPT ![name][u] = res]

\* stores left by earlier generations hold the root page those cached
OldStore == [EmptyStore EXCEPT ![IndexUrl] = Resp(IndexUrl, TRUE, 1)]

RECURSIVE SeqOf(_)
\* a set of names as a sequence (the order the stores were created in)
SeqOf(S) ==
  IF S = {} THEN <<>>
  ELSE LET x == CHOOSE y \in S : TRUE IN <<x>> \o SeqOf(S \ {x})

InitWorker ==
  /\ variant \in Variants
  /\ \E pre \in SUBSET StoreNames :
       /\ cacheNames = SeqOf(pre)
       /\ store = [n \in StoreNames |-> IF n \in pre THEN OldStore ELSE EmptyStore]
  /\ ipc = "new"
  /\ itask = [i \in Locators(variant) |-> ITask("idle", NoResp)]
  /\ apc = "idle"
  /\ akeys = {}
  /\ adel = {}
  /\ tasks = [t \in TaskIds |-> IdleTask]

\* a cachePutSafe (v01: the inline open and put) of another generation's
\* worker: where it stands and the CACHE_NAME of that generation
Prev(pc, name) == [pc |-> pc, name |-> name]

NoPrev == Prev("none", "")

\* the response that write carries
PrevRes == Resp(StyleUrl, TRUE, 1)

\* ------------------------------------------------------------ home.js
\* Numbers are counted in halves, so that 0.5 is a value: h = 2 is the
\* number 1
Num(finite, h) == [finite |-> finite, h |-> h]

\* a value JSON.parse may leave under a key of the stored counts object
Raw(t, h) == [t |-> t, h |-> h]

RawValues ==
  {Raw("number", h) : h \in -1..MaxHalves}
    \cup {Raw("string", h) : h \in 1..2}
    \cup {Raw("text", 0), Raw("null", 0), Raw("bool", 0), Raw("bool", 2)}

\* Number(x): a number is itself, a numeric string its number, any other
\* text NaN, null 0, false 0 and true 1
Number(raw) ==
  CASE raw.t = "number" -> Num(TRUE, raw.h)
    [] raw.t = "string" -> Num(TRUE, raw.h)
    [] raw.t = "text"   -> Num(FALSE, 0)
    [] raw.t = "null"   -> Num(TRUE, 0)
    [] raw.t = "bool"   -> Num(TRUE, raw.h)

\* Math.floor(n), an integer
Floor(n) == n.h \div 2

\* keys of the counts object, as their characters
CountKeys == {<<"a">>, <<" ", "a">>, <<"b">>, <<" ">>}

\* String(id).trim()
RECURSIVE TrimStart(_)
TrimStart(k) ==
  IF k # <<>> /\ Head(k) = " " THEN TrimStart(Tail(k)) ELSE k

RECURSIVE TrimEnd(_)
TrimEnd(k) ==
  IF k # <<>> /\ k[Len(k)] = " " THEN TrimEnd(SubSeq(k, 1, Len(k) - 1)) ELSE k

Trim(k) == TrimEnd(TrimStart(k))

\* an entry of Object.entries(countsObj)
Entry(id, raw) == [id |-> id, raw |-> raw]

\* the stored counts objects of at most max entries: their entries in key
\* order, no key twice
KeyLists(n) ==
  {ks \in [1..n -> CountKeys] : \A i, j \in 1..n : ks[i] = ks[j] => i = j}

CountsOfLen(n) ==
  {[i \in 1..n |-> Entry(ks[i], rs[i])] :
     ks \in KeyLists(n), rs \in [1..n -> RawValues]}

CountsObjects(max) == UNION {CountsOfLen(n) : n \in 0..max}

\* the object literal {} and the assignment sanitized[k] = v
EmptyObject == [k \in {} |-> 0]

SetKey(obj, k, v) ==
  [x \in DOMAIN obj \cup {k} |-> IF x = k THEN v ELSE obj[x]]

\* what summarize and summarizeCounts return
Summary(types, total, sanitized) ==
  [ownedTypes |-> types, ownedTotal |-> total, sanitized |-> sanitized]

NoSummary == Summary(0, 0, EmptyObject)

\* summarize of the first script: the loop over Object.keys(countsObj)
RECURSIVE summarizeFrom(_, _, _)
summarizeFrom(countsObj, i, acc) ==
  IF i > Len(countsObj) THEN acc
  ELSE LET id == countsObj[i].id
           n == Number(countsObj[i].raw)
       IN IF ~n.finite \/ n.h <= 0
          THEN summarizeFrom(countsObj, i + 1, acc)
          ELSE summarizeFrom(countsObj, i + 1,
                 Summary(acc.ownedTypes + 1,
                         acc.ownedTotal + Floor(n),
                         SetKey(acc.sanitized, id, Floor(n))))

summarize(countsObj) == summarizeFrom(countsObj, 1, NoSummary)

\* summarizeCounts of the second script: the loop over
\* Object.entries(countsObj), which also trims the key and skips an empty one
RECURSIVE summarizeCountsFrom(_, _, _)
summarizeCountsFrom(countsObj, i, acc) ==
  IF i > Len(countsObj) THEN acc
  ELSE LET n == Number(countsObj[i].raw)
           k == Trim(countsObj[i].id)
           v == Floor(n)
       IN IF ~n.finite \/ n.h <= 0
          THEN summarizeCountsFrom(countsObj, i + 1, acc)
          ELSE IF k = <<>>
          THEN summarizeCountsFrom(countsObj, i + 1, acc)
          ELSE summarizeCountsFrom(countsObj, i + 1,
                 Summary(acc.ownedTypes + 1,
                         acc.ownedTotal + v,
                         SetKey(acc.sanitized, k, v)))

summarizeCounts(countsObj) == summarizeCountsFrom(countsObj, 1, NoSummary)

\* an item of whatsnew.json's list: an object, or null
Item(n) == [null |-> FALSE, date |-> n]

NullItem == [null |-> TRUE, date |-> 0]

\* the lists "items" may hold: the i-th element is the i-th news item or null
ItemLists ==
  UNION {{[i \in 1..n |-> IF i \in nulls THEN NullItem ELSE Item(i)] :
            nulls \in SUBSET (1..n)} : n \in 0..MaxItems}

\* how the request for whatsnew.json ended: the fetch rejected, answered
\* non-2xx, or answered 2xx with a body that is not JSON, the JSON null, a
\* JSON scalar, an object without "items", an object whose "items" is not an
\* array, or an object with the list "items"
Got(kind, items) == [kind |-> kind, items |-> items]

NoGot == Got("none", <<>>)

FetchOutcomes == {"networkError", "notOk", "ok"}

JsonBodies ==
  {Got(k, <<>>) : k \in {"invalid", "null", "scalar", "object", "notArray"}}
    \cup {Got("items", l) : l \in ItemLists}

\* the content of #wnBody: nothing yet, one of the three placeholders
\* ("loading", "empty": no news yet, "error": news not obtainable), or the
\* rendered items
Panel(kind, items) == [kind |-> kind, items |-> items]

NoPanel == Panel("none", <<>>)

\* items.slice(0, 6)
slice(items, n) == SubSeq(items, 1, IF Len(items) < n THEN Len(items) ELSE n)

\* the page: whether the document has #missionBrief, where boot or a click
\* handler stands, the stored counts object and what was computed from it
HomePage(hasBox, counts) ==
  [pc |-> "page", hasBox |-> hasBox, bound |-> FALSE, clicks |-> 0,
   loads |-> 0, fetches |-> 0, got |-> NoGot, panel |-> NoPanel,
   counts |-> counts, old |-> NoSummary, status |-> NoSummary]

\* no page is open
NoHome == [HomePage(FALSE, <<>>) EXCEPT !.pc = "closed"]

\* the storage accepts every write and no other worker has a write in flight
Init == InitWorker /\ storageFails = FALSE /\ prev = NoPrev /\ home = NoHome

\* ---------------------------------------------------------------- install
LocUrl(i) == toAbsUrl(ASSETS(variant)[i])

\* the install event is dispatched: caches.open(CACHE_NAME) is issued
InstallStart ==
  /\ ipc = "new"
  /\ ipc' = "open"
  /\ UNCHANGED <<variant, cacheNames, store, itask, apc, akeys, adel, tasks, storageFails, prev, home>>

\* caches.open settles; precacheBestEffort starts one task per locator
\* (v01: cache.addAll is issued); a rejected open rejects the install
InstallOpened ==
  /\ ipc = "open"
  /\ \E okw \in WriteOutcomes :
       IF okw
       THEN /\ cacheNames' = OpenedNames(CACHE_NAME(variant))
            /\ IF BestEffortInstall(variant)
               THEN /\ ipc' = "precache"
                    /\ itask' = [i \in Locators(variant) |-> ITask("fetch", NoResp)]
               ELSE /\ ipc' = "addAll"
                    /\ itask' = itask
       ELSE /\ ipc' = "failed"
            /\ UNCHANGED <<cacheNames, itask>>
  /\ UNCHANGED <<variant, store, apc, akeys, adel, tasks, storageFails, prev, home>>

\* one locator's fetch settles: a rejection or a non-2xx response throws
\* into the task's own catch, a 2xx response goes on to cache.put
PrecacheFetchSettle(i) ==
  /\ ipc = "precache"
  /\ itask[i].st = "fetch"
  /\ \E o \in NetOutcomes(LocUrl(i)) :
       itask' = [itask EXCEPT ![i] =
                   ITask(IF precacheStores(o) THEN "put" ELSE "done", o)]
  /\ UNCHANGED <<variant, cacheNames, store, ipc, apc, akeys, adel, tasks, storageFails, prev, home>>

\* one locator's cache.put settles (a rejected put is caught too)
PrecachePutSettle(i) ==
  /\ ipc = "precache"
  /\ itask[i].st = "put"
  /\ \E okw \in WriteOutcomes :
       /\ store' = IF okw THEN PutInto(CACHE_NAME(variant), LocUrl(i), itask[i].res)
                          ELSE store
       /\ itask' = [itask EXCEPT ![i].st = IF okw THEN "done" ELSE "lost"]
  /\ UNCHANGED <<variant, cacheNames, ipc, apc, akeys, adel, tasks, storageFails, prev, home>>

RECURSIVE PutAll(_, _, _)
\* cache.addAll's writes: every fetched response under its locator
PutAll(st, outs, i) ==
  IF i > Len(ASSETS(variant)) THEN st
  ELSE PutAll([st EXCEPT ![CACHE_NAME(variant)][LocUrl(i)] = outs[i]], outs, i + 1)

\* v01: cache.addAll(ASSETS) fetches every locator and stores all of them or,
\* when one fetch rejects or is not 2xx, rejects and stores none; the
\* rejection rejects the install and skipWaiting is not reached
InstallAddAll ==
  /\ ipc = "addAll"
  /\ \E outs \in [Locators(variant) -> UNION {NetOutcomes(LocUrl(i)) : i \in Locators(variant)}] :
       /\ \A i \in Locators(variant) : outs[i] \in NetOutcomes(LocUrl(i))
       /\ itask' = [i \in Locators(variant) |-> ITask("done", outs[i])]
       /\ IF \A i \in Locators(variant) : precacheStores(outs[i])
          THEN \E okw \in WriteOutcomes :
                 IF okw THEN ipc' = "precache" /\ store' = PutAll(store, outs, 1)
                        ELSE ipc' = "failed" /\ store' = store
          ELSE ipc' = "failed" /\ store' = store
  /\ UNCHANGED <<variant, cacheNames, apc, akeys, adel, tasks, storageFails, prev, home>>

Settled(st) == st \in {"done", "lost"}

\* (mutant) skipWaiting without awaiting Promise.all(tasks)
InstallSkipWaitingEarly ==
  /\ ipc = "precache"
  /\ ipc' = "installed"
  /\ UNCHANGED <<variant, cacheNames, store, itask, apc, akeys, adel, tasks, storageFails, prev, home>>

\* Promise.all(tasks) has resolved: self.skipWaiting()
InstallSkipWaiting ==
  /\ ipc = "precache"
  /\ \A i \in Locators(variant) : Settled(itask[i].st)
  /\ ipc' = "installed"
  /\ UNCHANGED <<variant, cacheNames, store, itask, apc, akeys, adel, tasks, storageFails, prev, home>>

\* ---------------------------------------------------------------- activate
RECURSIVE Without(_, _)
Without(s, k) ==
  IF s = <<>> THEN <<>>
  ELSE IF Head(s) = k THEN Without(Tail(s), k)
  ELSE <<Head(s)>> \o Without(Tail(s), k)

\* (mutant) only this worker's own generations are deleted
StaleKeysOwnPrefix(keys, name) ==
  {k \in keys : k # name /\ k \in {CACHE_NAME(v) : v \in Variants}}

\* stale names of a key list: keys.map(k => k === CACHE_NAME ? null : delete)
StaleKeys(keys, name) == {k \in keys : k # name}

\* the activate event: caches.keys() settles and a delete is issued for
\* every key that is not CACHE_NAME (the install listener's tasks are over
\* and their locals gone)
ActivateKeys ==
  /\ ipc = "installed"
  /\ apc = "idle"
  /\ apc' = "delete"
  /\ akeys' = CacheKeys
  /\ adel' = StaleKeys(CacheKeys, CACHE_NAME(variant))
  /\ itask' = [i \in Locators(variant) |-> ITask("idle", NoResp)]
  /\ UNCHANGED <<variant, cacheNames, store, ipc, tasks, storageFails, prev, home>>

\* one caches.delete(k) settles
ActivateDelete(k) ==
  /\ apc = "delete"
  /\ k \in adel
  /\ adel' = adel \ {k}
  /\ cacheNames' = Without(cacheNames, k)
  /\ store' = [store EXCEPT ![k] = EmptyStore]
  /\ UNCHANGED <<variant, ipc, itask, apc, akeys, tasks, storageFails, prev, home>>

\* (mutant) clients.claim() without awaiting the deletes
ActivateClaimEarly ==
  /\ apc = "delete"
  /\ apc' = "active"
  /\ akeys' = {}
  /\ UNCHANGED <<variant, cacheNames, store, ipc, itask, adel, tasks, storageFails, prev, home>>

\* Promise.all of the deletes has resolved: self.clients.claim(), and the
\* listener's body (with its key list) is over
ActivateClaim ==
  /\ apc = "delete"
  /\ adel = {}
  /\ apc' = "active"
  /\ akeys' = {}
  /\ UNCHANGED <<variant, cacheNames, store, ipc, itask, adel, tasks, storageFails, prev, home>>

\* ---------------------------------------------------------------- fetch
Class(t) == Classify(variant, tasks[t].req)

ErrorOut == Out("error", NoResp, "none")

Finish(t, out) == [tasks EXCEPT ![t].pc = "done", ![t].out = out]

\* the synchronous part of the fetch listener: it returns without
\* respondWith, or it issues networkFirst's fetch, or the static branch's
\* caches.match
FetchEvent(t, r) ==
  /\ apc = "active"
  /\ tasks[t].pc = "idle"
  /\ \A s \in TaskIds : s < t => tasks[s].pc # "idle"
  /\ LET c == Classify(variant, r) IN
       tasks' = [tasks EXCEPT ![t] =
         CASE c = "native" ->
                [IdleTask EXCEPT !.pc = "done", !.req = r,
                                 !.out = Out("native", NoResp, "none")]
           [] c = "static" ->
                [IdleTask EXCEPT !.pc = "lookup", !.req = r, !.usedCache = TRUE]
           [] OTHER ->
                [IdleTask EXCEPT !.pc = "fetch", !.req = r, !.net = "pending"]]
  /\ UNCHANGED <<variant, cacheNames, store, ipc, itask, apc, akeys, adel, storageFails, prev, home>>

\* (mutant) a hit that waits for the network before it answers
LookupAwaitNetwork(t) ==
  /\ tasks[t].pc = "lookup"
  /\ tasks' = [tasks EXCEPT ![t].pc = "fetch", ![t].net = "pending"]
  /\ UNCHANGED <<variant, cacheNames, store, ipc, itask, apc, akeys, adel, storageFails, prev, home>>

\* self.___lastFetchEvent of part_000: the event dispatched last
LastFetchEvent ==
  CHOOSE t \in TaskIds :
    /\ tasks[t].pc # "idle"
    /\ \A s \in TaskIds : tasks[s].pc # "idle" => s <= t

\* (mutant) the revalidation handed to part_000's unused eventWait, which
\* calls waitUntil on self.___lastFetchEvent
LookupLastFetchEvent(t) ==
  /\ tasks[t].pc = "lookup"
  /\ LET cached == CachesMatch(tasks[t].req.url) IN
       tasks' = [tasks EXCEPT ![t] =
         IF cached # NoResp
         THEN [@ EXCEPT !.pc = "done", !.out = Out("response", cached, "cache"),
                        !.bg = "fetch", !.reg = LastFetchEvent]
         ELSE [@ EXCEPT !.pc = "fetch", !.net = "pending"]]
  /\ UNCHANGED <<variant, cacheNames, store, ipc, itask, apc, akeys, adel, storageFails, prev, home>>

\* static branch: caches.match(req) settles; a hit is returned at once and
\* the revalidating fetch is handed to event.waitUntil, a miss goes on to
\* fetch(req)
Lookup(t) ==
  /\ tasks[t].pc = "lookup"
  /\ LET cached == CachesMatch(tasks[t].req.url) IN
       tasks' = [tasks EXCEPT ![t] =
         IF cached # NoResp
         THEN [@ EXCEPT !.pc = "done", !.out = Out("response", cached, "cache"),
                        !.bg = "fetch", !.reg = t]
         ELSE [@ EXCEPT !.pc = "fetch", !.net = "pending"]]
  /\ UNCHANGED <<variant, cacheNames, store, ipc, itask, apc, akeys, adel, storageFails, prev, home>>

\* whether the strategy goes on to store the resolved response res
WantsStore(v, c, r, res) ==
  /\ (c = "static" \/ networkFirstStores(r))
  /\ (v = "v01" \/ cachePutSafe(v, res))

\* (mutant) networkFirst throwing on a response that is not 2xx
FetchSettleThrowsOnStatus(t) ==
  /\ tasks[t].pc = "fetch"
  /\ \E o \in NetOutcomes(tasks[t].req.url) :
       tasks' = [tasks EXCEPT ![t] =
         IF o # NoResp /\ (o.ok \/ Class(t) = "static")
         THEN IF WantsStore(variant, Class(t), tasks[t].req, o)
              THEN [@ EXCEPT !.pc = "open", !.res = o, !.net = "resolved",
                             !.usedCache = TRUE]
              ELSE [@ EXCEPT !.pc = "done", !.res = o, !.net = "resolved",
                             !.out = Out("response", o, "network")]
         ELSE IF Class(t) # "static"
              THEN [@ EXCEPT !.pc = "match", !.res = o,
                             !.net = IF o = NoResp THEN "rejected" ELSE "resolved",
                             !.usedCache = TRUE]
              ELSE IF StaticMissFallback(variant)
                   THEN [@ EXCEPT !.pc = "fallback", !.net = "rejected"]
                   ELSE [@ EXCEPT !.pc = "done", !.net = "rejected", !.out = ErrorOut]]
  /\ UNCHANGED <<variant, cacheNames, store, ipc, itask, apc, akeys, adel, storageFails, prev, home>>

\* the awaited fetch settles (networkFirst, or the static branch's miss)
FetchSettle(t) ==
  /\ tasks[t].pc = "fetch"
  /\ \E o \in NetOutcomes(tasks[t].req.url) :
       tasks' = [tasks EXCEPT ![t] =
         IF o # NoResp
         THEN IF WantsStore(variant, Class(t), tasks[t].req, o)
              THEN [@ EXCEPT !.pc = "open", !.res = o, !.net = "resolved",
                             !.usedCache = TRUE]
              ELSE [@ EXCEPT !.pc = "done", !.res = o, !.net = "resolved",
                             !.out = Out("response", o, "network")]
         ELSE IF Class(t) # "static"
              THEN [@ EXCEPT !.pc = "match", !.net = "rejected", !.usedCache = TRUE]
              ELSE IF StaticMissFallback(variant)
                   THEN [@ EXCEPT !.pc = "fallback", !.net = "rejected"]
                   ELSE [@ EXCEPT !.pc = "done", !.net = "rejected", !.out = ErrorOut]]
  /\ UNCHANGED <<variant, cacheNames, store, ipc, itask, apc, akeys, adel, storageFails, prev, home>>

\* caches.open(CACHE_NAME) settles.  v02, v03, v03b (cachePutSafe): go on to
\* the awaited put, a rejection is swallowed.  v01: the put is issued and not
\* awaited, the response is returned; a rejection is thrown, into
\* networkFirst's catch or out of the static branch
OpenSettle(t) ==
  /\ tasks[t].pc = "open"
  /\ \E okw \in WriteOutcomes :
       /\ cacheNames' = IF okw THEN OpenedNames(CACHE_NAME(variant)) ELSE cacheNames
       /\ tasks' = [tasks EXCEPT ![t] =
            IF okw
            THEN IF PutAwaited(variant)
                 THEN [@ EXCEPT !.pc = "put"]
                 ELSE [@ EXCEPT !.pc = "done", !.bg = "put", !.bgres = tasks[t].res,
                                !.out = Out("response", tasks[t].res, "network")]
            ELSE IF PutAwaited(variant)
                 THEN [@ EXCEPT !.pc = "done", !.out = Out("response", tasks[t].res, "network")]
                 ELSE IF Class(t) # "static"
                      THEN [@ EXCEPT !.pc = "match"]
                      ELSE [@ EXCEPT !.pc = "done", !.out = ErrorOut]]
  /\ UNCHANGED <<variant, store, ipc, itask, apc, akeys, adel, storageFails, prev, home>>

\* the awaited cache.put settles (a rejection is swallowed) and the live
\* response is returned
PutSettle(t) ==
  /\ tasks[t].pc = "put"
  /\ \E okw \in WriteOutcomes :
       store' = IF okw THEN PutInto(CACHE_NAME(variant), tasks[t].req.url, tasks[t].res)
                       ELSE store
  /\ tasks' = Finish(t, Out("response", tasks[t].res, "network"))
  /\ UNCHANGED <<variant, cacheNames, ipc, itask, apc, akeys, adel, storageFails, prev, home>>

\* (mutant) the catch branch consulting the root page before the exact entry
MatchRootFirst(t) ==
  /\ tasks[t].pc = "match"
  /\ LET cached == CachesMatch(tasks[t].req.url)
         fb == CachesMatch(toAbsUrl(IndexRel)) IN
       tasks' = [tasks EXCEPT ![t] =
         IF HasFallbackUrl(variant, @.req) /\ fb # NoResp
         THEN [@ EXCEPT !.pc = "done", !.out = Out("response", fb, "fallback")]
         ELSE IF cached # NoResp
              THEN [@ EXCEPT !.pc = "done", !.out = Out("response", cached, "cache")]
              ELSE [@ EXCEPT !.pc = "done", !.out = ErrorOut]]
  /\ UNCHANGED <<variant, cacheNames, store, ipc, itask, apc, akeys, adel, storageFails, prev, home>>

\* networkFirst's catch: caches.match(req) settles
Match(t) ==
  /\ tasks[t].pc = "match"
  /\ LET cached == CachesMatch(tasks[t].req.url) IN
       tasks' = [tasks EXCEPT ![t] =
         IF cached # NoResp
         THEN [@ EXCEPT !.pc = "done", !.out = Out("response", cached, "cache")]
         ELSE IF HasFallbackUrl(variant, @.req)
              THEN [@ EXCEPT !.pc = "fallback"]
              ELSE [@ EXCEPT !.pc = "done", !.out = ErrorOut]]
  /\ UNCHANGED <<variant, cacheNames, store, ipc, itask, apc, akeys, adel, storageFails, prev, home>>

\* (mutant) the final fallback of part_000's unused cacheFirstStaleRevalidate:
\* return caches.match("./index.html"), resolved even when nothing matches
FallbackResolvesUndefined(t) ==
  /\ tasks[t].pc = "fallback"
  /\ tasks' = [tasks EXCEPT ![t] =
       [@ EXCEPT !.pc = "done", !.usedCache = TRUE,
                 !.out = Out("response", CachesMatch(toAbsUrl(IndexRel)), "fallback")]]
  /\ UNCHANGED <<variant, cacheNames, store, ipc, itask, apc, akeys, adel, storageFails, prev, home>>

\* (mutant) a fallback that also stores the root page under the request
FallbackStoresRoot(t) ==
  /\ tasks[t].pc = "fallback"
  /\ LET fb == CachesMatch(toAbsUrl(IndexRel)) IN
       /\ tasks' = [tasks EXCEPT ![t] =
            IF fb # NoResp
            THEN [@ EXCEPT !.pc = "done", !.usedCache = TRUE,
                           !.out = Out("response", fb, "fallback")]
            ELSE [@ EXCEPT !.pc = "done", !.usedCache = TRUE, !.out = ErrorOut]]
       /\ store' = IF fb # NoResp
                   THEN PutInto(CACHE_NAME(variant), tasks[t].req.url, fb)
                   ELSE store
  /\ UNCHANGED <<variant, cacheNames, ipc, itask, apc, akeys, adel, storageFails, prev, home>>

\* caches.match("./index.html") settles: the root page or the failure
Fallback(t) ==
  /\ tasks[t].pc = "fallback"
  /\ LET fb == CachesMatch(toAbsUrl(IndexRel)) IN
       tasks' = [tasks EXCEPT ![t] =
         IF fb # NoResp
         THEN [@ EXCEPT !.pc = "done", !.usedCache = TRUE,
                        !.out = Out("response", fb, "fallback")]
         ELSE [@ EXCEPT !.pc = "done", !.usedCache = TRUE, !.out = ErrorOut]]
  /\ UNCHANGED <<variant, cacheNames, store, ipc, itask, apc, akeys, adel, storageFails, prev, home>>

\* (mutant) a revalidation that drops the entry when its fetch fails
BgFetchSettleEvicts(t) ==
  /\ tasks[t].bg = "fetch"
  /\ \E o \in NetOutcomes(tasks[t].req.url) :
       /\ tasks' = [tasks EXCEPT ![t] =
            IF o # NoResp /\ (variant = "v01" \/ cachePutSafe(variant, o))
            THEN [@ EXCEPT !.bg = "open", !.bgres = o]
            ELSE [@ EXCEPT !.bg = "settled", !.bgres = o]]
       /\ store' = IF o = NoResp
                   THEN PutInto(CACHE_NAME(variant), tasks[t].req.url, NoResp)
                   ELSE store
  /\ UNCHANGED <<variant, cacheNames, ipc, itask, apc, akeys, adel, storageFails, prev, home>>

\* the revalidating fetch of a cache hit settles: .then(cachePutSafe),
\* .catch(() => {})
BgFetchSettle(t) ==
  /\ tasks[t].bg = "fetch"
  /\ \E o \in NetOutcomes(tasks[t].req.url) :
       tasks' = [tasks EXCEPT ![t] =
         IF o # NoResp /\ (variant = "v01" \/ cachePutSafe(variant, o))
         THEN [@ EXCEPT !.bg = "open", !.bgres = o]
         ELSE [@ EXCEPT !.bg = "settled", !.bgres = o]]
  /\ UNCHANGED <<variant, cacheNames, store, ipc, itask, apc, akeys, adel, storageFails, prev, home>>

\* the revalidation's caches.open settles
BgOpenSettle(t) ==
  /\ tasks[t].bg = "open"
  /\ \E okw \in WriteOutcomes :
       /\ cacheNames' = IF okw THEN OpenedNames(CACHE_NAME(variant)) ELSE cacheNames
       /\ tasks' = [tasks EXCEPT ![t].bg = IF okw THEN "put" ELSE "settled"]
  /\ UNCHANGED <<variant, store, ipc, itask, apc, akeys, adel, storageFails, prev, home>>

\* a put that nobody awaits settles: the revalidation's, whose rejection the
\* chain's catch swallows, or v01's inline put, whose rejection nothing
\* handles
BgPutSettle(t) ==
  /\ tasks[t].bg = "put"
  /\ \E okw \in WriteOutcomes :
       /\ store' = IF okw THEN PutInto(CACHE_NAME(variant), tasks[t].req.url, tasks[t].bgres)
                          ELSE store
       /\ tasks' = [tasks EXCEPT ![t].bg =
                      IF okw \/ tasks[t].out.from = "cache" THEN "settled" ELSE "unhandled"]
  /\ UNCHANGED <<variant, cacheNames, ipc, itask, apc, akeys, adel, storageFails, prev, home>>

\* ---------------------------------------------------------------- system
Next ==
  \/ InstallStart
  \/ InstallOpened
  \/ \E i \in Locators(variant) : PrecacheFetchSettle(i)
  \/ \E i \in Locators(variant) : PrecachePutSettle(i)
  \/ InstallAddAll
  \/ InstallSkipWaiting
  \/ ActivateKeys
  \/ \E k \in StoreNames : ActivateDelete(k)
  \/ ActivateClaim
  \/ \E t \in TaskIds, r \in Requests : FetchEvent(t, r)
  \/ \E t \in TaskIds : Lookup(t)
  \/ \E t \in TaskIds : FetchSettle(t)
  \/ \E t \in TaskIds : OpenSettle(t)
  \/ \E t \in TaskIds : PutSettle(t)
  \/ \E t \in TaskIds : Match(t)
  \/ \E t \in TaskIds : Fallback(t)
  \/ \E t \in TaskIds : BgFetchSettle(t)
  \/ \E t \in TaskIds : BgOpenSettle(t)
  \/ \E t \in TaskIds : BgPutSettle(t)

Spec == Init /\ [][Next]_vars

\* the same worker over a storage whose opens and puts may reject
InitFault == InitWorker /\ storageFails = TRUE /\ prev = NoPrev /\ home = NoHome

SpecFault == InitFault /\ [][Next]_vars

\* sw.js's generation -03 takes over from its generation -02, whose store is
\* the one that exists and whose worker has, after a fetch of its own
\* resolved, a cachePutSafe in flight: its caches.open is issued
InitHandover ==
  /\ InitWorker
  /\ storageFails = FALSE
  /\ variant = "v03"
  /\ CacheKeys = {CACHE_NAME("v02")}
  /\ prev = Prev("open", CACHE_NAME("v02"))
  /\ home = NoHome

\* the previous worker's caches.open(CACHE_NAME) settles: the store is
\* created when it does not exist (any more)
PrevOpenSettle ==
  /\ prev.pc = "open"
  /\ cacheNames' = OpenedNames(prev.name)
  /\ prev' = [prev EXCEPT !.pc = "put"]
  /\ UNCHANGED <<variant, store, ipc, itask, apc, akeys, adel, tasks, storageFails, home>>

\* the previous worker's cache.put settles; on a store deleted since it was
\* opened the entry is not reachable through caches
PrevPutSettle ==
  /\ prev.pc = "put"
  /\ store' = IF prev.name \in CacheKeys
              THEN PutInto(prev.name, PrevRes.url, PrevRes)
              ELSE store
  /\ prev' = [prev EXCEPT !.pc = "settled"]
  /\ UNCHANGED <<variant, cacheNames, ipc, itask, apc, akeys, adel, tasks, storageFails, home>>

\* the steps of generation -03 (which installs with precacheBestEffort) and
\* of the write generation -02 left in flight
NextHandover ==
  \/ InstallStart
  \/ InstallOpened
  \/ \E i \in Locators(variant) : PrecacheFetchSettle(i)
  \/ \E i \in Locators(variant) : PrecachePutSettle(i)
  \/ InstallSkipWaiting
  \/ ActivateKeys
  \/ \E k \in StoreNames : ActivateDelete(k)
  \/ ActivateClaim
  \/ \E t \in TaskIds, r \in Requests : FetchEvent(t, r)
  \/ \E t \in TaskIds : Lookup(t)
  \/ \E t \in TaskIds : FetchSettle(t)
  \/ \E t \in TaskIds : OpenSettle(t)
  \/ \E t \in TaskIds : PutSettle(t)
  \/ \E t \in TaskIds : Match(t)
  \/ \E t \in TaskIds : Fallback(t)
  \/ \E t \in TaskIds : BgFetchSettle(t)
  \/ \E t \in TaskIds : BgOpenSettle(t)
  \/ \E t \in TaskIds : BgPutSettle(t)
  \/ PrevOpenSettle
  \/ PrevPutSettle

SpecHandover == InitHandover /\ [][NextHandover]_vars

\* ------------------------------------------------------- home.js: steps
\* the service worker's state, which no step of the page changes
worker == <<variant, cacheNames, store, ipc, itask, apc, akeys, adel, tasks, storageFails, prev>>

\* no worker is installed yet while the page is looked at
InitPage ==
  /\ InitWorker
  /\ variant = "v03b"
  /\ CacheKeys = {}
  /\ storageFails = FALSE
  /\ prev = NoPrev

\* where the caller of loadWhatsNew goes on when it resolves: boot to
\* bindEvents, the click handler to its end
Resolved(h) == IF h.bound THEN "bound" ELSE "loaded"

\* loadWhatsNew up to its first await: without #missionBrief it returns,
\* else it puts the loading placeholder and issues its fetch
loadWhatsNew(h) ==
  IF ~h.hasBox THEN [h EXCEPT !.pc = Resolved(h)]
  ELSE [h EXCEPT !.panel = Panel("loading", <<>>),
                 !.loads = @ + 1,
                 !.fetches = @ + 1,
                 !.pc = "fetch"]

\* DOMContentLoaded: boot() renders the status bar, then calls loadWhatsNew
DOMContentLoaded ==
  /\ home.pc = "page"
  /\ home' = loadWhatsNew([home EXCEPT !.status = summarizeCounts(home.counts)])
  /\ UNCHANGED worker

\* the fetch of whatsnew.json settles: a rejection goes to the catch block,
\* a non-2xx answer to the "no news yet" placeholder, a 2xx answer to
\* res.json()
WhatsNewFetchSettle(o) ==
  /\ home.pc = "fetch"
  /\ home' =
       CASE o = "networkError" ->
              [home EXCEPT !.got = Got(o, <<>>),
                           !.panel = Panel("error", <<>>),
                           !.pc = Resolved(home)]
         [] o = "notOk" ->
              [home EXCEPT !.got = Got(o, <<>>),
                           !.panel = Panel("empty", <<>>),
                           !.pc = Resolved(home)]
         [] o = "ok" -> [home EXCEPT !.pc = "json"]
  /\ UNCHANGED worker

\* what loadWhatsNew leaves in the panel for a parsed body: reading .items
\* of null throws, as does reading .date of a null item among the first six,
\* and both end in the catch block
Rendered(j) ==
  LET items == IF j.kind = "items" THEN j.items ELSE <<>>
      shown == slice(items, WhatsNewLimit)
  IN CASE j.kind \in {"invalid", "null"} -> Panel("error", <<>>)
       [] j.kind \notin {"invalid", "null"} /\ Len(items) = 0 ->
            Panel("empty", <<>>)
       [] OTHER ->
            IF \E i \in 1..Len(shown) : shown[i].null
            THEN Panel("error", <<>>)
            ELSE Panel("items", shown)

\* loadWhatsNew without its try/catch: an unparsable body and a null body
\* throw out of loadWhatsNew, and so out of boot
WhatsNewJsonSettleUncaught(j) ==
  /\ home.pc = "json"
  /\ home' = IF j.kind \in {"invalid", "null"}
             THEN [home EXCEPT !.got = j, !.pc = "bootFailed"]
             ELSE [home EXCEPT !.got = j,
                               !.panel = Rendered(j),
                               !.pc = Resolved(home)]
  /\ UNCHANGED worker

\* res.json() settles
WhatsNewJsonSettle(j) ==
  /\ home.pc = "json"
  /\ home' = [home EXCEPT !.got = j,
                          !.panel = Rendered(j),
                          !.pc = Resolved(home)]
  /\ UNCHANGED worker

\* boot goes on after its await: bindEvents
bindEvents ==
  /\ home.pc = "loaded"
  /\ home' = [home EXCEPT !.bound = TRUE, !.pc = "bound"]
  /\ UNCHANGED worker

\* a click on the reload button: the status bar is rendered again and
\* loadWhatsNew is called again
ReloadClick ==
  /\ home.pc = "bound"
  /\ home.clicks < MaxReloads
  /\ home' = loadWhatsNew([home EXCEPT !.clicks = @ + 1,
                                       !.status = summarizeCounts(home.counts)])
  /\ UNCHANGED worker

InitHome ==
  /\ InitPage
  /\ \E box \in BOOLEAN : home = HomePage(box, <<>>)

NextHome ==
  \/ DOMContentLoaded
  \/ \E o \in FetchOutcomes : WhatsNewFetchSettle(o)
  \/ \E j \in JsonBodies : WhatsNewJsonSettle(j)
  \/ bindEvents
  \/ ReloadClick

SpecHome == InitHome /\ [][NextHome]_vars

\* render() of the first script and renderStatusFromLocalStorage() of the
\* second, each on the counts object read from localStorage
render ==
  /\ home.pc = "page"
  /\ home' = [home EXCEPT !.old = summarize(home.counts)]
  /\ UNCHANGED worker

renderStatusFromLocalStorage ==
  /\ home.pc = "page"
  /\ home' = [home EXCEPT !.status = summarizeCounts(home.counts)]
  /\ UNCHANGED worker

InitCounts ==
  /\ InitPage
  /\ \E c \in CountsObjects(MaxEntries) : home = HomePage(FALSE, c)

NextCounts == render \/ renderStatusFromLocalStorage

SpecCounts == InitCounts /\ [][NextCounts]_vars

TypeOK ==
  /\ variant \in Variants
  /\ CacheKeys \subseteq StoreNames
  /\ ipc \in {"new", "open", "precache", "addAll", "installed", "failed"}
  /\ apc \in {"idle", "delete", "active"}

\* ---------------------------------------------------------------- claims
Cur == CACHE_NAME(variant)

IsNavGet(r) == r.method = "GET" /\ r.mode = "navigate"

\* a same-origin static GET: not a navigation, not freshness-sensitive
IsStaticGet(r) ==
  /\ r.method = "GET" /\ r.mode # "navigate"
  /\ r.url.origin = SelfOrigin
  /\ ~IsFresh(variant, r.url)

\* task t takes, in this step, the step that answers its event
Answers(t) == tasks[t].pc # "done" /\ tasks'[t].pc = "done"

\* C1: install is best-effort: whatever locators fail to fetch, the install
\* never fails, and once readiness is signalled every locator fetched 2xx is
\* in the current store and every failed locator is absent from it
C1_InstallBestEffort ==
  /\ ipc # "failed"
  /\ (ipc = "installed" /\ apc = "idle") =>
       \A i \in Locators(variant) :
         IF itask[i].res # NoResp /\ itask[i].res.ok
         THEN store[Cur][LocUrl(i)] = itask[i].res
         ELSE store[Cur][LocUrl(i)] = NoResp

\* every delete the activate listener issued has settled
DeletesSettled == apc = "active" \/ (apc = "delete" /\ adel = {})

\* C2: once the deletions of the activate phase have completed (and from
\* then on) the only store that exists is the one named CACHE_NAME
C2_OnlyCurrentStoreSurvives ==
  DeletesSettled => CacheKeys = {Cur}

\* C2 witness: the deletions have completed after caches.keys() listed
\* three or more stores, a store of no generation among them
C2_Witness ==
  /\ DeletesSettled
  /\ Cardinality(akeys) >= 3
  /\ "other-store" \in akeys
  /\ CacheKeys = {Cur}

\* C3: a navigation GET whose live fetch resolved is answered with that live
\* response; a cached or fallback response answers a navigation only after
\* the fetch rejected
C3_NavigationPrefersLive ==
  \A t \in TaskIds :
    (IsNavGet(tasks[t].req) /\ tasks[t].pc = "done") =>
      /\ tasks[t].net = "resolved" =>
           tasks[t].out = Out("response", tasks[t].res, "network")
      /\ tasks[t].out.from \in {"cache", "fallback"} => tasks[t].net = "rejected"

\* C3 witness: a navigation answered with the live response while the cache
\* holds another entry for the same request
C3_Witness ==
  \E t \in TaskIds :
    /\ IsNavGet(tasks[t].req) /\ tasks[t].pc = "done"
    /\ tasks[t].net = "resolved"
    /\ tasks[t].out = Out("response", tasks[t].res, "network")
    /\ CachesMatch(tasks[t].req.url) # NoResp
    /\ CachesMatch(tasks[t].req.url) # tasks[t].out.resp

\* C4: a navigation GET whose fetch rejected is answered, at a moment when
\* the cache holds no entry for the request and holds ./index.html, with
\* the cached ./index.html
C4_NavigationFallsBackToRoot ==
  [][\A t \in TaskIds :
       ( /\ Answers(t)
         /\ IsNavGet(tasks[t].req)
         /\ tasks'[t].net = "rejected"
         /\ CachesMatch(tasks[t].req.url) = NoResp
         /\ CachesMatch(IndexUrl) # NoResp )
       => tasks'[t].out = Out("response", CachesMatch(IndexUrl), "fallback")]_vars

\* C4 witness: an offline navigation to a page that is not cached was
\* answered with the cached root page
C4_Witness ==
  \E t \in TaskIds :
    /\ IsNavGet(tasks[t].req) /\ tasks[t].pc = "done"
    /\ tasks[t].net = "rejected"
    /\ tasks[t].req.url # IndexUrl
    /\ CachesMatch(tasks[t].req.url) = NoResp
    /\ tasks[t].out = Out("response", store[Cur][IndexUrl], "fallback")
    /\ tasks[t].out.resp.url = IndexUrl

\* C5: a same-origin static GET that finds a cache entry is answered with
\* that entry in the very step its caches.match settles, while the
\* revalidating fetch is still pending and without any awaited fetch; an
\* answer, once given, is never replaced
C5_CacheHitAnsweredAtOnce ==
  [][\A t \in TaskIds :
       /\ ( /\ IsStaticGet(tasks[t].req)
            /\ tasks[t].pc \notin {"idle", "done"}
            /\ tasks[t].net = "none"
            /\ tasks'[t] # tasks[t]
            /\ CachesMatch(tasks[t].req.url) # NoResp )
          => /\ tasks'[t].pc = "done"
             /\ tasks'[t].out = Out("response", CachesMatch(tasks[t].req.url), "cache")
             /\ tasks'[t].bg = "fetch"
             /\ tasks'[t].net = "none"
       /\ tasks[t].pc = "done"
          => (tasks'[t].pc = "done" /\ tasks'[t].out = tasks[t].out)]_vars

\* C5 witness: a static request answered from the cache whose revalidating
\* fetch has not settled yet
C5_Witness ==
  \E t \in TaskIds :
    /\ IsStaticGet(tasks[t].req) /\ tasks[t].pc = "done"
    /\ tasks[t].out.from = "cache"
    /\ tasks[t].out.resp = store[Cur][tasks[t].req.url]
    /\ tasks[t].bg = "fetch"

\* C6: a cache hit issues a revalidating fetch; a 2xx response of that fetch
\* is never dropped on its way to the store, its put overwrites the entry of
\* the request, and a static request looked up afterwards is answered with
\* the entry the store then holds
C6_RevalidationOverwrites ==
  [][\A t \in TaskIds :
       /\ (tasks[t].pc = "lookup" /\ tasks'[t].out.from = "cache")
          => (tasks'[t].bg = "fetch"
              /\ tasks'[t].out.resp = store[Cur][tasks[t].req.url])
       /\ (tasks[t].bg = "fetch" /\ tasks'[t].bg # "fetch")
          => \/ (tasks'[t].bg = "open" /\ tasks'[t].bgres # NoResp)
             \/ (tasks'[t].bg = "settled" /\ ~tasks'[t].bgres.ok)
       /\ (tasks[t].bg = "open" /\ tasks'[t].bg # "open")
          => (tasks'[t].bg = "put" /\ tasks'[t].bgres = tasks[t].bgres)
       /\ (tasks[t].bg = "put" /\ tasks'[t].bg # "put")
          => (tasks'[t].bg = "settled"
              /\ store'[Cur][tasks[t].req.url] = tasks[t].bgres)]_vars

\* C6 witness: a request was served the old entry, its revalidation stored
\* a new 2xx response, and a later request for the same resource was
\* answered with that new response
C6_Witness ==
  \E t1, t2 \in TaskIds :
    /\ t1 # t2
    /\ IsStaticGet(tasks[t1].req) /\ tasks[t2].req = tasks[t1].req
    /\ tasks[t1].out.from = "cache" /\ tasks[t1].bg = "settled"
    /\ tasks[t1].bgres.ok /\ tasks[t1].bgres # tasks[t1].out.resp
    /\ tasks[t2].pc = "done" /\ tasks[t2].out.from = "cache"
    /\ tasks[t2].out.resp = tasks[t1].bgres

\* C7: every key of every cache store has the worker's own origin
C7_NoCrossOriginKeys ==
  \A n \in StoreNames : \A u \in Urls :
    store[n][u] # NoResp => u.origin = SelfOrigin

\* C7 witness: a cross-origin navigation was answered with a live 2xx
\* response and a cross-origin sub-resource request went by, and the store
\* holds entries
C7_Witness ==
  /\ \E t \in TaskIds :
       /\ IsNavGet(tasks[t].req) /\ tasks[t].req.url.origin # SelfOrigin
       /\ tasks[t].pc = "done" /\ tasks[t].out.from = "network" /\ tasks[t].out.resp.ok
  /\ \E t \in TaskIds :
       /\ ~IsNavGet(tasks[t].req) /\ tasks[t].req.url.origin = OtherOrigin
       /\ tasks[t].pc = "done"
  /\ \E u \in Urls : store[Cur][u] # NoResp

\* a task the listener left alone: no respondWith, no fetch, no cache access
Untouched(t) ==
  /\ tasks[t].pc = "done"
  /\ tasks[t].out = Out("native", NoResp, "none")
  /\ tasks[t].net = "none"
  /\ tasks[t].bg = "none"
  /\ ~tasks[t].usedCache

C9_NonOkNeverStored ==
  /\ \A n \in StoreNames : \A u \in Urls :
       store[n][u] # NoResp => store[n][u].ok
  /\ \A t \in TaskIds :
       (tasks[t].pc = "done" /\ tasks[t].net = "resolved" /\ ~tasks[t].res.ok)
         => tasks[t].out = Out("response", tasks[t].res, "network")

\* C10: a same-origin static GET with no cache entry whose fetch rejected is
\* answered, when the cache holds ./index.html, with the cached ./index.html
\* and not with the failure
C10_StaticMissFallsBackToRoot ==
  [][\A t \in TaskIds :
       ( /\ Answers(t)
         /\ IsStaticGet(tasks[t].req)
         /\ tasks'[t].net = "rejected"
         /\ CachesMatch(IndexUrl) # NoResp )
       => tasks'[t].out = Out("response", CachesMatch(IndexUrl), "fallback")]_vars

\* a GET of the freshness-sensitive class: not a navigation, cards-hub data
IsFreshGet(r) ==
  r.method = "GET" /\ r.mode # "navigate" /\ IsFresh(variant, r.url)

\* C11: in the catch branch of a navigation the exact entry comes first: when
\* caches.match(req) finds an entry the navigation is answered with it,
\* whether or not ./index.html is cached; the root page is looked up only
\* after caches.match(req) found nothing, and only that lookup answers with it
C11_ExactEntryBeforeRoot ==
  [][\A t \in TaskIds :
       IsNavGet(tasks[t].req) =>
         /\ ( /\ tasks[t].pc = "match" /\ tasks'[t] # tasks[t]
              /\ CachesMatch(tasks[t].req.url) # NoResp )
            => tasks'[t].out = Out("response", CachesMatch(tasks[t].req.url), "cache")
         /\ (tasks[t].pc # "fallback" /\ tasks'[t].pc = "fallback")
            => (tasks[t].pc = "match" /\ CachesMatch(tasks[t].req.url) = NoResp)
         /\ (tasks[t].out.from # "fallback" /\ tasks'[t].out.from = "fallback")
            => tasks[t].pc = "fallback"]_vars

\* C11 witness: an offline navigation answered with its own cached entry
\* while ./index.html, another entry, is cached too
C11_Witness ==
  \E t \in TaskIds :
    /\ IsNavGet(tasks[t].req) /\ tasks[t].pc = "done"
    /\ tasks[t].net = "rejected"
    /\ tasks[t].req.url # IndexUrl
    /\ tasks[t].out = Out("response", store[Cur][tasks[t].req.url], "cache")
    /\ store[Cur][IndexUrl] # NoResp

\* C12: a freshness-sensitive GET is answered with the live response when its
\* fetch resolves; when the fetch rejects, with the exact cached entry if
\* there is one and with the failure otherwise; never with the root page
C12_FreshNetworkFirstNoRoot ==
  [][\A t \in TaskIds :
       IsFreshGet(tasks'[t].req) =>
         /\ tasks'[t].pc # "fallback"
         /\ tasks'[t].out.from # "fallback"
         /\ tasks'[t].pc \notin {"lookup"}
         /\ Answers(t) =>
              /\ tasks'[t].net = "resolved"
                 => tasks'[t].out = Out("response", tasks'[t].res, "network")
              /\ (tasks'[t].net = "rejected" /\ CachesMatch(tasks[t].req.url) # NoResp)
                 => tasks'[t].out = Out("response", CachesMatch(tasks[t].req.url), "cache")
              /\ (tasks'[t].net = "rejected" /\ CachesMatch(tasks[t].req.url) = NoResp)
                 => tasks'[t].out = ErrorOut]_vars

\* C12 witness: the fetch of a cards-hub request rejected, no exact entry was
\* cached, ./index.html was, and the failure was handed on
C12_Witness ==
  \E t \in TaskIds :
    /\ IsFreshGet(tasks[t].req) /\ tasks[t].pc = "done"
    /\ tasks[t].net = "rejected"
    /\ CachesMatch(tasks[t].req.url) = NoResp
    /\ CachesMatch(IndexUrl) # NoResp
    /\ tasks[t].out = ErrorOut

\* whether a handler that fails to fetch r consults ./index.html
FallbackApplies(r) ==
  \/ HasFallbackUrl(variant, r)
  \/ (Classify(variant, r) = "static" /\ StaticMissFallback(variant))

\* C13: a handler whose fetch rejected, at a moment when the cache holds no
\* entry for the request and (where the strategy has a fallback) no
\* ./index.html, hands the failure on; and no handler ever resolves with a
\* missing response
C13_TotalFailurePropagates ==
  [][\A t \in TaskIds :
       Answers(t) =>
         /\ ( /\ tasks'[t].net = "rejected"
              /\ CachesMatch(tasks[t].req.url) = NoResp
              /\ FallbackApplies(tasks[t].req) => CachesMatch(IndexUrl) = NoResp )
            => tasks'[t].out = ErrorOut
         /\ tasks'[t].out.kind = "response" => tasks'[t].out.resp # NoResp]_vars

\* C13 witness: an offline navigation with neither its own entry nor
\* ./index.html in the cache ended in the failure
C13_Witness ==
  \E t \in TaskIds :
    /\ IsNavGet(tasks[t].req) /\ tasks[t].pc = "done"
    /\ tasks[t].net = "rejected"
    /\ CachesMatch(tasks[t].req.url) = NoResp
    /\ CachesMatch(IndexUrl) = NoResp
    /\ tasks[t].out = ErrorOut

\* C14: a request whose method is not GET is left alone: the listener
\* returns without respondWith, no fetch is issued, no cache is touched, and
\* the step that dispatches it changes no store
C14_NonGetUntouched ==
  [][\A t \in TaskIds :
       (tasks'[t].pc # "idle" /\ tasks'[t].req.method # "GET")
         => /\ tasks'[t].pc = "done"
            /\ tasks'[t].out = Out("native", NoResp, "none")
            /\ tasks'[t].net = "none" /\ tasks'[t].bg = "none"
            /\ ~tasks'[t].usedCache
            /\ (tasks[t].pc = "idle" => (store' = store /\ cacheNames' = cacheNames))]_vars

\* C14 witness: a POST to a URL the cache holds an entry for was left alone
C14_Witness ==
  \E t \in TaskIds :
    /\ tasks[t].req.method = "POST"
    /\ store[Cur][tasks[t].req.url] # NoResp
    /\ Untouched(t)

C16_FailedRevalidationKeepsEntry ==
  [][\A t \in TaskIds :
       ( /\ tasks[t].bg = "fetch" /\ tasks'[t].bg # "fetch"
         /\ tasks'[t].bgres = NoResp )
       => /\ tasks'[t].bg = "settled"
          /\ store' = store /\ cacheNames' = cacheNames
          /\ tasks[t].out.from = "cache"
          /\ tasks'[t].out = tasks[t].out /\ tasks'[t].pc = "done"]_vars

\* C16 witness: a static request answered from the cache, its revalidating
\* fetch rejected, and the entry it was answered with still stored
C16_Witness ==
  \E t \in TaskIds :
    /\ IsStaticGet(tasks[t].req) /\ tasks[t].pc = "done"
    /\ tasks[t].out.from = "cache"
    /\ tasks[t].bg = "settled" /\ tasks[t].bgres = NoResp
    /\ store[Cur][tasks[t].req.url] = tasks[t].out.resp

\* C17: whatever the storage does, a handler whose live fetch resolved
\* answers with that live response and never with an error or another
\* response
C17_StoreFailureSwallowed ==
  \A t \in TaskIds :
    (tasks[t].pc = "done" /\ tasks[t].net = "resolved")
      => tasks[t].out = Out("response", tasks[t].res, "network")

\* C18: when a same-origin navigation whose live fetch resolved 2xx is
\* answered, the current store holds that response under the request
C18_NavigationStoredWhenAnswered ==
  [][\A t \in TaskIds :
       ( /\ Answers(t)
         /\ IsNavGet(tasks[t].req) /\ isSameOrigin(tasks[t].req.url)
         /\ tasks'[t].net = "resolved" /\ tasks'[t].res.ok )
       => store'[Cur][tasks[t].req.url] = tasks'[t].res]_vars

\* task t has completed a put of a response it fetched (the storage accepts
\* every write): the handler's own put, or the revalidation's
Wrote(t) ==
  \/ /\ tasks[t].pc = "done" /\ tasks[t].net = "resolved"
     /\ WantsStore(variant, Class(t), tasks[t].req, tasks[t].res)
     /\ (PutAwaited(variant) \/ tasks[t].bg = "settled")
  \/ /\ tasks[t].out.from = "cache" /\ tasks[t].bg = "settled"
     /\ tasks[t].bgres # NoResp
     /\ (variant = "v01" \/ cachePutSafe(variant, tasks[t].bgres))

Written(t) == IF tasks[t].out.from = "cache" THEN tasks[t].bgres ELSE tasks[t].res

Adds(n, u) == store'[n][u] # store[n][u] /\ store'[n][u] # NoResp

\* a step of install provisioning
InstallStep == ipc \in {"precache", "addAll"} /\ itask' # itask

\* the put of the revalidation after a cache-first hit settles
RevalidationPut(t) ==
  /\ tasks[t].out.from = "cache"
  /\ tasks[t].bg = "put" /\ tasks'[t].bg = "settled"

\* the put of a handler that fetched the response it returns settles:
\* networkFirst's store, or the static branch's store on a cache miss
HandlerPut(t) ==
  /\ tasks[t].net = "resolved"
  /\ \/ (tasks[t].pc = "put" /\ tasks'[t].pc = "done")
     \/ (tasks[t].out.from = "network" /\ tasks[t].bg = "put" /\ tasks'[t].bg = "settled")

\* C20 (as stated): an entry is added or overwritten only by install
\* provisioning and by the revalidation after a cache-first hit
C20_OnlyInstallAndRevalidationWrite ==
  [][\A n \in StoreNames, u \in Urls :
       Adds(n, u) =>
         \/ InstallStep
         \/ \E t \in TaskIds : RevalidationPut(t) /\ tasks[t].req.url = u]_vars

\* C20 (amended): an entry is added or overwritten, in the current store
\* only, by install provisioning, by the revalidation after a cache-first
\* hit, and by a handler storing the response it fetched: networkFirst for a
\* same-origin GET, the static branch on a cache miss
C20_OnlyInstallAndStrategiesWrite ==
  [][\A n \in StoreNames, u \in Urls :
       Adds(n, u) =>
         /\ n = Cur
         /\ \/ InstallStep /\ \E i \in Locators(variant) : u = LocUrl(i)
            \/ \E t \in TaskIds :
                 /\ tasks[t].req.url = u /\ isSameOrigin(u)
                 /\ \/ RevalidationPut(t) /\ Class(t) = "static"
                    \/ HandlerPut(t)]_vars

\* C20 witness: a navigation to a page outside the manifest was answered
\* with the live response and the store holds that response under it
C20_Witness ==
  \E t \in TaskIds :
    /\ IsNavGet(tasks[t].req) /\ tasks[t].pc = "done"
    /\ tasks[t].req.url = PageUrl
    /\ tasks[t].out = Out("response", tasks[t].res, "network")
    /\ store[Cur][PageUrl] = tasks[t].res

\* C21: an entry is removed from a store only when the activate listener
\* deletes that whole store, a store with a stale name; an entry of the
\* current store, once stored, stays (overwritten or not)
C21_EntriesNeverRemoved ==
  [][\A n \in StoreNames, u \in Urls :
       (store[n][u] # NoResp /\ store'[n][u] = NoResp)
         => /\ n # Cur
            /\ apc = "delete" /\ n \in adel /\ n \notin adel'
            /\ store'[n] = EmptyStore]_vars

\* C21 witness: an entry of the current store was overwritten by a
\* revalidation with another response and is present
C21_Witness ==
  \E t \in TaskIds :
    /\ IsStaticGet(tasks[t].req)
    /\ tasks[t].out.from = "cache" /\ tasks[t].bg = "settled"
    /\ tasks[t].bgres # NoResp /\ ~tasks[t].bgres.ok
    /\ store[Cur][tasks[t].req.url] = tasks[t].bgres
    /\ tasks[t].out.resp.ok

\* C22: the per-locator tasks of the install start together, and
\* skipWaiting is reached only when every one of them has settled
C22_SkipWaitingAfterAllSettled ==
  [][/\ (\E i \in Locators(variant) : itask[i].st = "idle" /\ itask'[i].st # "idle")
        => \A j \in Locators(variant) : itask[j].st = "idle" /\ itask'[j].st # "idle"
     /\ (ipc # "installed" /\ ipc' = "installed")
        => \A i \in Locators(variant) :
             /\ Settled(itask[i].st)
             /\ precacheStores(itask[i].res)
                  => store[CACHE_NAME(variant)][LocUrl(i)] = itask[i].res]_vars

\* C22 witness: skipWaiting was reached after one locator's fetch had
\* rejected, another had answered non-2xx and a third was stored
C22_Witness ==
  /\ ipc = "installed" /\ apc = "idle"
  /\ \E i, j, k \in Locators(variant) :
       /\ itask[i].st = "done" /\ itask[i].res = NoResp
       /\ itask[j].st = "done" /\ itask[j].res # NoResp /\ ~itask[j].res.ok
       /\ itask[k].st = "done" /\ itask[k].res.ok
       /\ store[Cur][LocUrl(k)] = itask[k].res

\* C23: the revalidation of a cache-first hit is registered with the event
\* that started it, runs while that event is already answered, always has
\* its next step to take, and never ends in an unhandled rejection
C23_RevalidationRegisteredAndSettles ==
  \A t \in TaskIds :
    IF Class(t) = "static" /\ tasks[t].out.from = "cache"
    THEN /\ tasks[t].pc = "done"
         /\ tasks[t].reg = t
         /\ tasks[t].bg \in {"fetch", "open", "put", "settled"}
         /\ tasks[t].bg = "fetch" => ENABLED BgFetchSettle(t)
         /\ tasks[t].bg = "open" => ENABLED BgOpenSettle(t)
         /\ tasks[t].bg = "put" => ENABLED BgPutSettle(t)
    ELSE tasks[t].reg = 0

\* C23 witness: a revalidation fetched a 2xx response, its cache write
\* failed, and it settled with the entry and the answer as they were
C23_Witness ==
  \E t \in TaskIds :
    /\ Class(t) = "static" /\ tasks[t].out.from = "cache"
    /\ tasks[t].bg = "settled" /\ tasks[t].reg = t
    /\ tasks[t].bgres.ok /\ tasks[t].bgres # tasks[t].out.resp
    /\ store[Cur][tasks[t].req.url] = tasks[t].out.resp
    /\ \A s \in TaskIds \ {t} : tasks[s].pc = "idle"

\* C24: what the listener does with a request is decided by its method,
\* mode and URL alone, in the order navigation, cards-hub data, same-origin
\* static, cross-origin: a GET navigation goes to networkFirst with the root
\* page fallback, a cards-hub GET to networkFirst without it, another
\* same-origin GET to the cache lookup, anything else is left alone
C24_ClassificationByPrecedence ==
  [][\A t \in TaskIds :
       LET r == tasks'[t].req IN
       /\ (tasks[t].pc = "idle" /\ tasks'[t].pc # "idle") =>
            tasks'[t] =
              IF r.method # "GET"
              THEN [IdleTask EXCEPT !.req = r, !.pc = "done", !.out = Out("native", NoResp, "none")]
              ELSE IF r.mode = "navigate" \/ IsFresh(variant, r.url)
              THEN [IdleTask EXCEPT !.req = r, !.pc = "fetch", !.net = "pending"]
              ELSE IF r.url.origin = SelfOrigin
              THEN [IdleTask EXCEPT !.req = r, !.pc = "lookup", !.usedCache = TRUE]
              ELSE [IdleTask EXCEPT !.req = r, !.pc = "done", !.out = Out("native", NoResp, "none")]
       /\ (tasks[t].pc = "match" /\ tasks'[t].pc # "match"
           /\ CachesMatch(tasks[t].req.url) = NoResp)
           => IF r.mode = "navigate" THEN tasks'[t].pc = "fallback"
                                     ELSE tasks'[t].out = ErrorOut]_vars

\* C24 witness: an offline navigation to a cards-hub .csv URL was answered
\* with the cached root page
C24_Witness ==
  \E t \in TaskIds :
    /\ tasks[t].req = Req("GET", "navigate", HubCsvUrl)
    /\ tasks[t].pc = "done" /\ tasks[t].net = "rejected"
    /\ tasks[t].out = Out("response", store[Cur][IndexUrl], "fallback")
    /\ tasks[t].out.resp # NoResp

\* a GET handled by networkFirst
IsNetworkFirstGet(r) == IsNavGet(r) \/ IsFreshGet(r)

\* C25: networkFirst enters its catch branch only when the fetch rejected;
\* a resolved response that is not 2xx is what the caller gets, whatever
\* the cache holds
C25_StatusNeverTriggersFallback ==
  \A t \in TaskIds :
    IsNetworkFirstGet(tasks[t].req) =>
      /\ tasks[t].pc \in {"match", "fallback"} => tasks[t].net = "rejected"
      /\ (tasks[t].pc = "done" /\ tasks[t].res # NoResp /\ ~tasks[t].res.ok)
           => tasks[t].out = Out("response", tasks[t].res, "network")

\* C25 witness: a networkFirst request got a non-2xx response and was
\* answered with it while the cache holds a 2xx entry for the request
C25_Witness ==
  \E t \in TaskIds :
    /\ IsNetworkFirstGet(tasks[t].req) /\ tasks[t].pc = "done"
    /\ tasks[t].net = "resolved" /\ ~tasks[t].res.ok
    /\ tasks[t].out = Out("response", tasks[t].res, "network")
    /\ store[Cur][tasks[t].req.url] # NoResp
    /\ store[Cur][tasks[t].req.url].ok

\* C26: every step of the worker that adds or overwrites an entry does so
\* in the store named CACHE_NAME, and the only store a step creates is that
\* one
C26_WritesOnlyOwnStore ==
  [][/\ \A n \in StoreNames :
          (\E u \in Urls : Adds(n, u)) => n = CACHE_NAME(variant)
     /\ \A n \in StoreNames :
          (n \in Range(cacheNames') /\ n \notin Range(cacheNames))
            => n = CACHE_NAME(variant)]_vars

\* C26 witness: the worker created its store beside two others and wrote
\* into it, and the others hold what they held
C26_Witness ==
  /\ Len(cacheNames) = 3 /\ cacheNames[3] = Cur
  /\ \E u \in Urls \ {IndexUrl} : store[Cur][u] # NoResp
  /\ \A n \in CacheKeys \ {Cur} : store[n] = OldStore

\* C27: clients.claim() is reached only when every delete the listener
\* issued has settled, and then no store with another name than CACHE_NAME
\* exists
C27_ClaimAfterDeletes ==
  [][(apc # "active" /\ apc' = "active")
       => /\ apc = "delete" /\ adel = {}
          /\ CacheKeys \cap StaleKeys(akeys, Cur) = {}
          /\ CacheKeys = {Cur}]_vars

\* C27 witness: the deletes of two stale stores have settled and
\* clients.claim() is the step to take
C27_Witness ==
  /\ ENABLED ActivateClaim
  /\ Cardinality(StaleKeys(akeys, Cur)) = 2
  /\ CacheKeys = {Cur}

\* the request for whatsnew.json ended without a list of items to show
NoItemsGot ==
  \/ home.got.kind \in {"networkError", "notOk", "invalid", "null",
                        "scalar", "object", "notArray"}
  \/ home.got.kind = "items" /\ home.got.items = <<>>

\* C28: the what's-new loader is failure-safe: nothing is thrown out of
\* loadWhatsNew, every call of it has issued exactly one fetch, once it has
\* resolved the panel holds a placeholder whenever the request ended without
\* items and otherwise a placeholder or the first items, never more than 6
\* of them, and boot goes on to bind the event handlers
C28_WhatsNewFailureSafe ==
  /\ home.pc # "bootFailed"
  /\ home.fetches = home.loads
  /\ (home.pc \in {"loaded", "bound"} /\ home.loads > 0) =>
       /\ home.panel.kind \in {"empty", "error", "items"}
       /\ NoItemsGot => home.panel.kind \in {"empty", "error"}
       /\ home.panel.kind = "items" =>
            /\ Len(home.panel.items) <= 6
            /\ home.panel.items
                 = SubSeq(home.got.items, 1, Len(home.panel.items))
  /\ home.pc = "loaded" => ENABLED bindEvents

\* boot has bound the handlers after a whatsnew.json that was not JSON, the
\* panel showing the "not obtainable" placeholder after one fetch
C28_Witness ==
  /\ home.pc = "bound"
  /\ home.got.kind = "invalid"
  /\ home.panel.kind = "error"
  /\ home.fetches = 1

RECURSIVE SumOver(_, _)
SumOver(obj, keys) ==
  IF keys = {} THEN 0
  ELSE LET k == CHOOSE x \in keys : TRUE
       IN obj[k] + SumOver(obj, keys \ {k})

\* a summary as the sanitisation is described
Sanitised(s) ==
  /\ \A k \in DOMAIN s.sanitized : s.sanitized[k] >= 1
  /\ s.ownedTypes = Cardinality(DOMAIN s.sanitized)
  /\ s.ownedTotal = SumOver(s.sanitized, DOMAIN s.sanitized)
  /\ s.ownedTotal >= s.ownedTypes

\* C29: card-count sanitisation keeps only finite counts of at least 1:
\* every value of the sanitized map is an integer >= 1, ownedTypes is the
\* number of sanitized keys, ownedTotal the sum of the sanitized values, and
\* so ownedTotal >= ownedTypes, for summarize and for summarizeCounts
C29_SanitizedCountsAtLeastOne ==
  /\ Sanitised(home.old)
  /\ Sanitised(home.status)


====
